---- MODULE Spec2Model ----
(***************************************************************************)
(* CyberMetric evaluation harness (src/lib/CyberMetricEvaluator.py) with   *)
(* the response extraction of the Ollama and OpenAI adapters               *)
(* (src/OllamaCyberMetricEvaluator.py, src/OpenAICyberMetricEvaluator.py). *)
(*                                                                         *)
(* Texts are sequences of one-character strings.  A value that Python      *)
(* holds as "str or None" is a record [tag, val]: tag "str" with the text  *)
(* in val, tag "None", or tag "raise" when the call raised instead of      *)
(* returning.  Answers (one letter or None) are strings, NoneVal standing  *)
(* for Python's None.  The accuracy correct/count*100 is kept as the exact *)
(* fraction [num, den].                                                    *)
(***************************************************************************)
EXTENDS Integers, Sequences, FiniteSets, TLC

VARIABLES
    questions_data,     \* run_evaluation: json_data['questions']
    save_evaluation,    \* self.save_evaluation
    pc,                 \* position in run_evaluation / ask_llm / extract_answer
    idx,                \* number of items the for loop of run_evaluation has taken
    attempt,            \* ask_llm: loop variable of range(max_retries); 0 outside ask_llm
    llm_answer,         \* run_evaluation: value returned by ask_llm
    correct_count,      \* run_evaluation: correct_count
    incorrect_answers,  \* run_evaluation: incorrect_answers
    progress_n,         \* progress_bar.n
    accuracy_rate,      \* run_evaluation: accuracy_rate shown on the progress bar
    log,                \* the adapter's record of the ask_llm call in progress or just returned:
                        \* one entry per query_client call; empty once the answer is tallied
    slept,              \* the arguments of the time.sleep calls of that ask_llm call
    printed,            \* accuracy of the summary printed at the end, or NoReport
    evaluation_log,     \* the file record_evaluation writes, or NoFile
    response,           \* extract_answer: its argument
    result,             \* extract_answer: its return value
    run,                \* number of run_evaluation calls made on the evaluator
    adapter_call        \* get_client_response: the adapter called and its argument

vars == <<questions_data, save_evaluation, pc, idx, attempt, llm_answer,
          correct_count, incorrect_answers, progress_n, accuracy_rate,
          log, slept, printed, evaluation_log, response, result, run,
          adapter_call>>

----
\* Bounds of the model
MaxQuestions == 2
MaxLen == 3
MaxRuns == 2

\* ask_llm(self, question, answers, max_retries=5)
max_retries == 5

NoneVal == "None"
Letters == {"A", "B", "C", "D"}
NoReport == [num |-> -1, den |-> 1]
NoFile == [summary |-> NoReport, entries |-> <<>>]
Unset == "unset"

Str(t) == [tag |-> "str", val |-> t]
NoneText == [tag |-> "None", val |-> <<>>]
Raised == [tag |-> "raise", val |-> <<>>]

----
\* Characters and str methods

LowerChars == <<"a","b","c","d","e","f","g","h","i","j","k","l","m",
                "n","o","p","q","r","s","t","u","v","w","x","y","z">>
UpperChars == <<"A","B","C","D","E","F","G","H","I","J","K","L","M",
                "N","O","P","Q","R","S","T","U","V","W","X","Y","Z">>
Whitespace == {" ", "\n", "\t"}

IndexIn(seq, c) == IF \E i \in 1..Len(seq) : seq[i] = c
                   THEN CHOOSE i \in 1..Len(seq) : seq[i] = c
                   ELSE 0

\* the matched character as it stands in the text
upper_Identity(c) == c

\* str.upper() on one character
upper(c) == IF IndexIn(LowerChars, c) # 0 THEN UpperChars[IndexIn(LowerChars, c)] ELSE c

\* case folding of re.IGNORECASE on one character
lower(c) == IF IndexIn(UpperChars, c) # 0 THEN LowerChars[IndexIn(UpperChars, c)] ELSE c

RECURSIVE lstrip(_)
lstrip(t) == IF t # <<>> /\ Head(t) \in Whitespace THEN lstrip(Tail(t)) ELSE t

RECURSIVE rstrip(_)
rstrip(t) == IF t # <<>> /\ t[Len(t)] \in Whitespace
             THEN rstrip(SubSeq(t, 1, Len(t) - 1))
             ELSE t

\* str.strip()
strip(t) == rstrip(lstrip(t))

\* the class without re.IGNORECASE
ClassMatches_CaseSensitive(c) == c \in {"A", "B", "C", "D"}

\* whether the character class [A-D] under re.IGNORECASE matches c
ClassMatches(c) == lower(c) \in {"a", "b", "c", "d"}

\* re.search(r"([A-D])", t, re.IGNORECASE): position of the match scanning
\* from position i, 0 when there is none
RECURSIVE re_search(_, _)
re_search(t, i) == IF i > Len(t) THEN 0
                   ELSE IF ClassMatches(t[i]) THEN i
                   ELSE re_search(t, i + 1)

\* extract_answer(response): a letter, NoneVal, or "raise" (None has no strip)
extract_answer(r) ==
    IF r.tag # "str" THEN "raise"
    ELSE IF strip(r.val) # <<>>
         THEN LET s == strip(r.val)
                  match == re_search(s, 1)
              IN IF match # 0 THEN upper(s[match]) ELSE NoneVal
         ELSE NoneVal

----
\* The adapter (src/OllamaCyberMetricEvaluator.py) and its stub outputs

SeqsUpTo(S, n) == UNION {[1..k -> S] : k \in 0..n}

\* Texts a stub adapter answers with
TextB == <<"B">>
TextAnswerIsB == <<"T","h","e"," ","a","n","s","w","e","r"," ","i","s"," ","B"," ","b","e","c","a","u","s","e",".",".",".">>
TextCannot == <<"I"," ","c","a","n","n","o","t"," ","a","n","s","w","e","r"," ","t","h","a","t">>
TextDigits == <<"4","2","!">>
StubTexts == {<<>>, TextB, TextAnswerIsB, TextCannot, TextDigits}

\* What query_client (ollama.chat) may return: a falsy value, a response
\* without the 'message' key, one whose message is None, one whose message
\* has no 'content' key, or a message with content
Outputs == {[shape |-> s, content |-> <<>>] :
                s \in {"falsy", "no_message", "message_falsy", "no_content"}}
           \cup {[shape |-> "message", content |-> t] : t \in StubTexts}

\* Python truthiness of the output in "if output:"
Truthy(output) == output.shape # "falsy"

\* OllamaCyberMetricEvaluator.get_client_response(client_output)
get_client_response(client_output) ==
    IF ~Truthy(client_output) THEN NoneText
    ELSE IF client_output.shape = "no_message" THEN Raised
    ELSE IF client_output.shape = "message_falsy" THEN NoneText
    ELSE IF client_output.shape = "no_content" THEN Raised
    ELSE IF client_output.content # <<>> THEN Str(client_output.content)
    ELSE NoneText

----
\* Dataset

Q1 == [question |-> "2+2?",
       answers |-> [A |-> "3", B |-> "4", C |-> "5", D |-> "6"],
       solution |-> "B"]
Q2 == [question |-> "What color is the sky?",
       answers |-> [A |-> "Blue", B |-> "Green", C |-> "Yellow", D |-> "Red"],
       solution |-> "A"]
QuestionPool == {Q1, Q2}
Datasets == SeqsUpTo(QuestionPool, MaxQuestions)

\* Inputs of extract_answer taken on its own
Alphabet == {"a", "B", "d", "C", "e", " ", "."}
BoundedTexts == SeqsUpTo(Alphabet, MaxLen)

----
\* ask_llm

NotCalled == [tag |-> "not_called", val |-> <<>>]

\* no get_client_response call is being looked at
NoCall == [api |-> "none", shape |-> "none", content |-> <<>>]

\* One entry of the stub adapter's record: what query_client did ("raised",
\* "falsy", "output"), what get_client_response gave, what extract_answer gave
Entry(send, text, res) == [send |-> send, text |-> text, result |-> res]

\* a wait that stops growing after the fourth attempt
backoff_Capped(a) == IF a > 3 THEN 2 ^ 3 ELSE 2 ^ a

\* time.sleep(2 ** attempt)
backoff(a) == 2 ^ a

\* "if result and len(result) == 1": None is falsy, a letter is one character
accepted(res) == res # NoneVal /\ Len(<<res>>) = 1

\* a loop that makes one attempt more
loop_continues_OneMore(a) == a <= max_retries

\* "for attempt in range(max_retries)": whether the loop has an iteration left
loop_continues(a) == a < max_retries

\* no except branch: the exception leaves ask_llm and run_evaluation
Except_Propagates(entry) ==
    /\ log' = Append(log, entry)
    /\ pc' = "crashed"
    /\ UNCHANGED <<attempt, llm_answer, slept>>

\* the except branch: wait, then the next iteration of the for loop
Except(entry) ==
    /\ log' = Append(log, entry)
    /\ slept' = Append(slept, backoff(attempt))
    /\ attempt' = attempt + 1
    /\ UNCHANGED <<pc, llm_answer>>

\* a branch that only prints: the next iteration of the for loop
Retry(entry) ==
    /\ log' = Append(log, entry)
    /\ attempt' = attempt + 1
    /\ UNCHANGED <<pc, llm_answer, slept>>

\* the loop goes on after a valid result
Return_Continues(entry, res) == Retry(entry)

\* "return result"
Return(entry, res) ==
    /\ log' = Append(log, entry)
    /\ llm_answer' = res
    /\ pc' = "answered"
    /\ UNCHANGED <<attempt, slept>>

\* one iteration of the for loop in which query_client raises
QueryRaises ==
    /\ pc = "ask"
    /\ loop_continues(attempt)
    /\ Except(Entry("raised", NotCalled, "not_called"))
    /\ UNCHANGED <<questions_data, save_evaluation, idx, correct_count,
                   incorrect_answers, progress_n, accuracy_rate, printed,
                   evaluation_log, response, result,
                   run, adapter_call>>

\* one iteration of the for loop in which query_client returns output
AfterOutput(output) ==
    IF ~Truthy(output)
    THEN Retry(Entry("falsy", NotCalled, "not_called"))
    ELSE LET text == get_client_response(output)
         IN IF text = Raised
            THEN Except(Entry("output", text, "not_called"))
            ELSE LET res == extract_answer(text)
                 IN IF res = "raise" THEN Except(Entry("output", text, res))
                    ELSE IF accepted(res) THEN Return(Entry("output", text, res), res)
                    ELSE Retry(Entry("output", text, res))

QueryReturns ==
    /\ pc = "ask"
    /\ loop_continues(attempt)
    /\ \E output \in Outputs : AfterOutput(output)
    /\ UNCHANGED <<questions_data, save_evaluation, idx, correct_count,
                   incorrect_answers, progress_n, accuracy_rate, printed,
                   evaluation_log, response, result,
                   run, adapter_call>>

\* the for loop is over: "return None"
Exhausted ==
    /\ pc = "ask"
    /\ ~loop_continues(attempt)
    /\ llm_answer' = NoneVal
    /\ pc' = "answered"
    /\ UNCHANGED <<questions_data, save_evaluation, idx, attempt, correct_count,
                   incorrect_answers, progress_n, accuracy_rate, log, slept,
                   printed, evaluation_log, response, result,
                   run, adapter_call>>

----
\* run_evaluation

\* "Accuracy: {correct_count / questions_count * 100}%", for questions_count > 0
accuracy(correct, count) == [num |-> correct * 100, den |-> count]

\* the next question asked while the answer before it is not yet counted
AskQuestion_BeforeTally ==
    /\ pc \in {"loop", "answered"}
    /\ idx < Len(questions_data)
    /\ idx' = idx + 1
    /\ attempt' = 0
    /\ log' = <<>>
    /\ slept' = <<>>
    /\ pc' = "ask"
    /\ UNCHANGED <<questions_data, save_evaluation, llm_answer, correct_count,
                   incorrect_answers, progress_n, accuracy_rate, printed,
                   evaluation_log, response, result, run, adapter_call>>

\* the for loop takes the next item and calls ask_llm
AskQuestion ==
    /\ pc = "loop"
    /\ idx < Len(questions_data)
    /\ idx' = idx + 1
    /\ attempt' = 0
    /\ log' = <<>>
    /\ slept' = <<>>
    /\ pc' = "ask"
    /\ UNCHANGED <<questions_data, save_evaluation, llm_answer, correct_count,
                   incorrect_answers, progress_n, accuracy_rate, printed,
                   evaluation_log, response, result,
                   run, adapter_call>>

\* "if llm_answer == correct_answer"
is_correct_NoneCounts(answer, correct_answer) ==
    answer = correct_answer \/ answer = NoneVal
is_correct(answer, correct_answer) == answer = correct_answer

\* "correct_count += 1" when the answer is the solution
tally_correct(answer, item, count) ==
    IF is_correct(answer, item.solution) THEN count + 1 ELSE count

\* the append without its else
tally_incorrect_AlwaysAppends(answer, item, list) ==
    Append(list, [question |-> item.question,
                  correct_answer |-> item.solution,
                  llm_answer |-> answer])

\* the new mistake put in front of the list
tally_incorrect_Prepends(answer, item, list) ==
    IF answer = item.solution
    THEN list
    ELSE <<[question |-> item.question,
            correct_answer |-> item.solution,
            llm_answer |-> answer]>> \o list

\* "incorrect_answers.append({...})" otherwise
tally_incorrect(answer, item, list) ==
    IF is_correct(answer, item.solution)
    THEN list
    ELSE Append(list, [question |-> item.question,
                       correct_answer |-> item.solution,
                       llm_answer |-> answer])

\* the loop body with progress_bar.update(1) moved before the accuracy
Tally_UpdatesFirst ==
    /\ pc = "answered"
    /\ correct_count' = tally_correct(llm_answer, questions_data[idx], correct_count)
    /\ incorrect_answers' =
          tally_incorrect(llm_answer, questions_data[idx], incorrect_answers)
    /\ progress_n' = progress_n + 1
    /\ accuracy_rate' = accuracy(correct_count', progress_n' + 1)
    /\ attempt' = 0
    /\ log' = <<>>
    /\ slept' = <<>>
    /\ pc' = "loop"
    /\ UNCHANGED <<questions_data, save_evaluation, idx, llm_answer,
                   printed, evaluation_log, response, result,
                   run, adapter_call>>

\* the rest of the loop body once ask_llm has returned
Tally ==
    /\ pc = "answered"
    /\ correct_count' = tally_correct(llm_answer, questions_data[idx], correct_count)
    /\ incorrect_answers' =
          tally_incorrect(llm_answer, questions_data[idx], incorrect_answers)
    /\ accuracy_rate' = accuracy(correct_count', progress_n + 1)
    /\ progress_n' = progress_n + 1
    /\ attempt' = 0
    /\ log' = <<>>
    /\ slept' = <<>>
    /\ pc' = "loop"
    /\ UNCHANGED <<questions_data, save_evaluation, idx, llm_answer,
                   printed, evaluation_log, response, result,
                   run, adapter_call>>

\* the file written whether or not it was asked for
Finish_AlwaysWrites ==
    /\ pc = "loop"
    /\ idx = Len(questions_data)
    /\ Len(questions_data) # 0
    /\ printed' = accuracy(correct_count, Len(questions_data))
    /\ evaluation_log' =
          [summary |-> accuracy(correct_count, Len(questions_data)),
           entries |-> incorrect_answers]
    /\ pc' = "done"
    /\ UNCHANGED <<questions_data, save_evaluation, idx, attempt, llm_answer,
                   correct_count, incorrect_answers, progress_n, accuracy_rate,
                   log, slept, response, result,
                   run, adapter_call>>

\* after the loop: print the summary, write the file if requested (the
\* verbose listing of the mistakes only prints and changes no state)
Finish ==
    /\ pc = "loop"
    /\ idx = Len(questions_data)
    /\ Len(questions_data) # 0
    /\ printed' = accuracy(correct_count, Len(questions_data))
    /\ evaluation_log' =
          IF save_evaluation
          THEN [summary |-> accuracy(correct_count, Len(questions_data)),
                entries |-> incorrect_answers]
          ELSE evaluation_log
    /\ pc' = "done"
    /\ UNCHANGED <<questions_data, save_evaluation, idx, attempt, llm_answer,
                   correct_count, incorrect_answers, progress_n, accuracy_rate,
                   log, slept, response, result,
                   run, adapter_call>>

\* after the loop over no questions: correct_count / 0 raises ZeroDivisionError
FinishEmpty ==
    /\ pc = "loop"
    /\ idx = Len(questions_data)
    /\ Len(questions_data) = 0
    /\ pc' = "crashed"
    /\ UNCHANGED <<questions_data, save_evaluation, idx, attempt, llm_answer,
                   correct_count, incorrect_answers, progress_n, accuracy_rate,
                   log, slept, printed, evaluation_log, response, result,
                   run, adapter_call>>

----
Init ==
    /\ questions_data \in Datasets
    /\ save_evaluation \in BOOLEAN
    /\ pc = "loop"
    /\ idx = 0
    /\ attempt = 0
    /\ llm_answer = Unset
    /\ correct_count = 0
    /\ incorrect_answers = <<>>
    /\ progress_n = 0
    /\ accuracy_rate = NoReport
    /\ log = <<>>
    /\ slept = <<>>
    /\ printed = NoReport
    /\ evaluation_log = NoFile
    /\ response = NotCalled
    /\ result = Unset
    /\ run = 1
    /\ adapter_call = NoCall

Next ==
    \/ AskQuestion
    \/ QueryRaises
    \/ QueryReturns
    \/ Exhausted
    \/ Tally
    \/ Finish
    \/ FinishEmpty

Spec == Init /\ [][Next]_vars

\* The run is one thread of control that nothing suspends for ever: a step
\* that can be taken is taken
FairSpec == Spec /\ WF_vars(Next)

----
\* extract_answer on its own

InitExtract ==
    /\ response \in {Str(t) : t \in BoundedTexts}
    /\ result = Unset
    /\ pc = "extract_call"
    /\ questions_data = <<>>
    /\ save_evaluation = FALSE
    /\ idx = 0
    /\ attempt = 0
    /\ llm_answer = Unset
    /\ correct_count = 0
    /\ incorrect_answers = <<>>
    /\ progress_n = 0
    /\ accuracy_rate = NoReport
    /\ log = <<>>
    /\ slept = <<>>
    /\ printed = NoReport
    /\ evaluation_log = NoFile
    /\ run = 0
    /\ adapter_call = NoCall

ExtractAnswer ==
    /\ pc = "extract_call"
    /\ result' = extract_answer(response)
    /\ pc' = "extract_return"
    /\ UNCHANGED <<questions_data, save_evaluation, idx, attempt, llm_answer,
                   correct_count, incorrect_answers, progress_n, accuracy_rate,
                   log, slept, printed, evaluation_log, response,
                   run, adapter_call>>

NextExtract == ExtractAnswer

SpecExtract == InitExtract /\ [][NextExtract]_vars

----
\* run_evaluation called again on the same evaluator, with a stub adapter
\* that answers every question with the letter of its solution

StubCorrectOutput(item) == [shape |-> "message", content |-> <<item.solution>>]

\* one iteration of the for loop of ask_llm against the stub
QueryStubCorrect ==
    /\ pc = "ask"
    /\ loop_continues(attempt)
    /\ AfterOutput(StubCorrectOutput(questions_data[idx]))
    /\ UNCHANGED <<questions_data, save_evaluation, idx, correct_count,
                   incorrect_answers, progress_n, accuracy_rate, printed,
                   evaluation_log, response, result, run, adapter_call>>

\* a second call whose counters go on from the first call's
RunAgain_KeepsCounts ==
    /\ pc = "done"
    /\ run < MaxRuns
    /\ run' = run + 1
    /\ idx' = 0
    /\ progress_n' = 0
    /\ incorrect_answers' = <<>>
    /\ llm_answer' = Unset
    /\ accuracy_rate' = NoReport
    /\ pc' = "loop"
    /\ UNCHANGED <<questions_data, save_evaluation, attempt, correct_count, log,
                   slept, printed, evaluation_log, response, result, adapter_call>>

\* the next call of run_evaluation: the dataset is read again, the counters
\* and the progress bar are new, the locals of the call are not yet bound;
\* what was printed and the file of the call before stay
RunAgain ==
    /\ pc = "done"
    /\ run < MaxRuns
    /\ run' = run + 1
    /\ idx' = 0
    /\ correct_count' = 0
    /\ incorrect_answers' = <<>>
    /\ progress_n' = 0
    /\ llm_answer' = Unset
    /\ accuracy_rate' = NoReport
    /\ pc' = "loop"
    /\ UNCHANGED <<questions_data, save_evaluation, attempt, log, slept,
                   printed, evaluation_log, response, result, adapter_call>>

NextTwice ==
    \/ AskQuestion
    \/ QueryStubCorrect
    \/ Tally
    \/ Finish
    \/ FinishEmpty
    \/ RunAgain

SpecTwice == Init /\ [][NextTwice]_vars

----
\* get_client_response of the two adapters on its own

\* What the OpenAI client may hand to get_client_response: a falsy value, an
\* object without choices, an empty choices list, a falsy first choice, a
\* first choice without a message (or with message None), a message whose
\* content is None, or a message with content
OpenAIShapes == {"falsy", "no_choices", "choices_empty", "choice_falsy",
                 "no_message", "content_none"}

\* OpenAICyberMetricEvaluator.get_client_response(client_output)
openai_get_client_response(client_output) ==
    IF client_output.shape = "falsy" THEN NoneText
    ELSE IF client_output.shape = "no_choices" THEN Raised
    ELSE IF client_output.shape \in {"choices_empty", "choice_falsy"} THEN NoneText
    ELSE IF client_output.shape = "no_message" THEN Raised
    ELSE IF client_output.shape = "content_none" THEN NoneText
    ELSE Str(client_output.content)

AdapterCalls ==
    {[api |-> "ollama", shape |-> s, content |-> <<>>] :
        s \in {"falsy", "no_message", "message_falsy", "no_content"}}
    \cup {[api |-> "openai", shape |-> s, content |-> <<>>] : s \in OpenAIShapes}
    \cup {[api |-> a, shape |-> "message", content |-> t] :
            a \in {"ollama", "openai"}, t \in BoundedTexts}

InitAdapter ==
    /\ adapter_call \in AdapterCalls
    /\ response = NotCalled
    /\ pc = "adapter_call"
    /\ result = Unset
    /\ run = 0
    /\ questions_data = <<>>
    /\ save_evaluation = FALSE
    /\ idx = 0
    /\ attempt = 0
    /\ llm_answer = Unset
    /\ correct_count = 0
    /\ incorrect_answers = <<>>
    /\ progress_n = 0
    /\ accuracy_rate = NoReport
    /\ log = <<>>
    /\ slept = <<>>
    /\ printed = NoReport
    /\ evaluation_log = NoFile

OllamaGetClientResponse ==
    /\ pc = "adapter_call"
    /\ adapter_call.api = "ollama"
    /\ response' = get_client_response(adapter_call)
    /\ pc' = "adapter_return"
    /\ UNCHANGED <<questions_data, save_evaluation, idx, attempt, llm_answer,
                   correct_count, incorrect_answers, progress_n, accuracy_rate,
                   log, slept, printed, evaluation_log, result, run, adapter_call>>

OpenAIGetClientResponse ==
    /\ pc = "adapter_call"
    /\ adapter_call.api = "openai"
    /\ response' = openai_get_client_response(adapter_call)
    /\ pc' = "adapter_return"
    /\ UNCHANGED <<questions_data, save_evaluation, idx, attempt, llm_answer,
                   correct_count, incorrect_answers, progress_n, accuracy_rate,
                   log, slept, printed, evaluation_log, result, run, adapter_call>>

NextAdapter == OllamaGetClientResponse \/ OpenAIGetClientResponse

SpecAdapter == InitAdapter /\ [][NextAdapter]_vars

----
\* Properties

\* every query_client call of the current question raised
AllSendsRaised == \A i \in 1..Len(log) : log[i].send = "raised"

\* every query_client call of the current question returned a message with text t
AllSendsAnswered(t) ==
    \A i \in 1..Len(log) : log[i].send = "output" /\ log[i].text = Str(t)

Last(seq) == seq[Len(seq)]

\* C1: the number of questions asked so far is the number of correct answers
\* plus the number of mistakes, the correct answers are no more than the
\* questions asked, between two questions every question taken has been
\* counted, and at the end of the run the count (and the count the report
\* divides by) is the size of the dataset.
C1_ScoreBoard ==
    /\ progress_n = correct_count + Len(incorrect_answers)
    /\ correct_count <= progress_n
    /\ (pc = "loop" => progress_n = idx)
    /\ (pc = "done" => /\ progress_n = Len(questions_data)
                       /\ printed.den = Len(questions_data))

C1_Witness ==
    /\ pc = "done"
    /\ Len(questions_data) = 2
    /\ correct_count = 1
    /\ Len(incorrect_answers) = 1

\* C2: when every query_client call of a question raised, ask_llm has made
\* exactly max_retries calls when it returns, it returns None, and the
\* question is then recorded as a mistake whose llm_answer is None and not
\* as a correct answer.
C2_RetryExhaustion ==
    /\ []((pc = "answered" /\ AllSendsRaised) =>
             (Len(log) = max_retries /\ llm_answer = NoneVal))
    /\ [][(pc = "answered" /\ AllSendsRaised) =>
             /\ incorrect_answers' =
                   Append(incorrect_answers,
                          [question |-> questions_data[idx].question,
                           correct_answer |-> questions_data[idx].solution,
                           llm_answer |-> NoneVal])
             /\ correct_count' = correct_count]_vars

C2_Witness ==
    /\ pc = "answered"
    /\ idx = 2
    /\ AllSendsRaised
    /\ Len(log) = max_retries
    /\ llm_answer = NoneVal
    /\ Len(incorrect_answers) = 1
    /\ incorrect_answers[1].llm_answer = NoneVal

\* C3: an attempt in which query_client returned non-empty output and
\* get_client_response returned None is followed by the next attempt without
\* a call of time.sleep, as for a text without a valid letter.
C3_NoneTextNoBackoff ==
    [][(pc = "ask" /\ Len(log') = Len(log) + 1
        /\ Last(log').send = "output" /\ Last(log').text = NoneText)
       => (slept' = slept /\ attempt' = attempt + 1 /\ pc' = "ask")]_vars

\* the run is over the dataset of the one question "2+2?" and ask_llm has
\* returned
EndToEndAnswered == questions_data = <<Q1>> /\ pc = "answered"

\* C4: with the dataset of the one question "2+2?" (solution B) and a first
\* response text "The answer is B because...", ask_llm returns "B" after
\* one attempt and the run ends with one correct answer, one question asked,
\* no mistake and an accuracy of 100.
C4_EndToEndAnswerB ==
    /\ []((EndToEndAnswered /\ log[1].send = "output"
           /\ log[1].text = Str(TextAnswerIsB)) =>
              (Len(log) = 1 /\ llm_answer = "B"))
    /\ [][(EndToEndAnswered /\ log[1].send = "output"
           /\ log[1].text = Str(TextAnswerIsB)) =>
              /\ correct_count' = 1
              /\ progress_n' = 1
              /\ incorrect_answers' = <<>>
              /\ accuracy_rate' = [num |-> 100, den |-> 1]]_vars
    /\ []((questions_data = <<Q1>> /\ pc = "done" /\ correct_count = 1) =>
              printed = [num |-> 100, den |-> 1])

\* C5: with the same dataset and an adapter that answers every call with the
\* text "I cannot answer that", ask_llm makes 5 attempts and returns None,
\* the mistake {expected B, answer None} is recorded and the accuracy is 0.
C5_EndToEndCannot ==
    /\ []((EndToEndAnswered /\ AllSendsAnswered(TextCannot)) =>
              (Len(log) = 5 /\ llm_answer = NoneVal))
    /\ [][(EndToEndAnswered /\ AllSendsAnswered(TextCannot)) =>
              /\ correct_count' = 0
              /\ incorrect_answers' = <<[question |-> Q1.question,
                                         correct_answer |-> "B",
                                         llm_answer |-> NoneVal]>>
              /\ accuracy_rate'.num = 0]_vars
    /\ []((questions_data = <<Q1>> /\ pc = "done" /\ correct_count = 0) =>
              printed.num = 0)

\* the letter a character a, b, c, d, A, B, C or D stands for
LetterOf(c) == CASE c \in {"a", "A"} -> "A"
                 [] c \in {"b", "B"} -> "B"
                 [] c \in {"c", "C"} -> "C"
                 [] c \in {"d", "D"} -> "D"

\* C6: extract_answer returns, for every text, the upper-case form of the
\* first character that is one of a, b, c, d, A, B, C, D, and None when the
\* text is empty, only whitespace, or without such a character; it changes
\* nothing but its result.
C6_ExtractAnswer ==
    pc = "extract_return" =>
        LET t == response.val
            hits == {i \in 1..Len(t) : t[i] \in {"a", "b", "c", "d", "A", "B", "C", "D"}}
        IN IF hits = {}
           THEN result = NoneVal
           ELSE \E i \in hits : /\ \A j \in hits : i <= j
                                /\ result = LetterOf(t[i])

C6_Witness ==
    /\ pc = "extract_return"
    /\ response = Str(<<" ", "d", "B">>)
    /\ result = "D"

\* C7: while every query_client call of the question raises, the waits are
\* 1, 2, 4, 8, 16 in that order, one for each attempt made, and all five
\* when ask_llm returns.
C7_Backoff ==
    (pc \in {"ask", "answered"} /\ AllSendsRaised) =>
        /\ slept = SubSeq(<<1, 2, 4, 8, 16>>, 1, Len(log))
        /\ (pc = "answered" => slept = <<1, 2, 4, 8, 16>>)

C7_Witness ==
    /\ pc = "answered"
    /\ AllSendsRaised
    /\ slept = <<1, 2, 4, 8, 16>>

\* C8: an attempt in which query_client returned falsy output, and one whose
\* text has no valid letter, go to the next attempt without a call of
\* time.sleep; time.sleep is called only in an attempt in which query_client
\* raised.
C8_WaitOnlyAfterSendRaised ==
    [][(pc = "ask" /\ Len(log') = Len(log) + 1) =>
          /\ (Last(log').send = "falsy" => slept' = slept)
          /\ (Last(log').result = NoneVal => slept' = slept)
          /\ (slept' # slept => Last(log').send = "raised")]_vars

\* C9: ask_llm goes on only while no attempt gave a letter, and when it has
\* returned, an attempt that gave a letter is the last one made and its
\* letter is the value returned: with the first valid attempt at index k
\* there are exactly k+1 query_client calls, k < max_retries.
C9_ReturnOnFirstValid ==
    /\ (pc = "ask" => \A i \in 1..Len(log) : log[i].result \notin Letters)
    /\ (pc = "answered" =>
           /\ Len(log) <= max_retries
           /\ \A i \in 1..Len(log) :
                 log[i].result \in Letters =>
                     (i = Len(log) /\ llm_answer = log[i].result))

C9_Witness ==
    /\ pc = "answered"
    /\ Len(log) = 3
    /\ log[1].send = "raised"
    /\ log[2].send = "falsy"
    /\ log[3].result = "B"
    /\ llm_answer = "B"

\* C10: whatever the adapter does, ask_llm never makes more than max_retries
\* attempts, the run never ends in an exception when there is a question,
\* and a run over a dataset with at least one question reaches the report
\* with every question counted.
C10_RunCompletes ==
    /\ [](attempt <= max_retries /\ Len(log) <= max_retries)
    /\ [](Len(questions_data) # 0 => pc # "crashed")
    /\ (Len(questions_data) # 0) ~>
          (pc = "done" /\ progress_n = Len(questions_data) /\ printed # NoReport)

C10_Witness ==
    /\ pc = "answered"
    /\ idx = 2
    /\ Len(incorrect_answers) = 1
    /\ incorrect_answers[1].llm_answer = NoneVal
    /\ llm_answer = NoneVal
    /\ Len(log) = max_retries
    /\ \E i \in 1..Len(log) : log[i].send = "raised"
    /\ \E i \in 1..Len(log) : log[i].send = "falsy"
    /\ \E i \in 1..Len(log) : log[i].text = Raised
    /\ \E i \in 1..Len(log) : log[i].text = NoneText
    /\ \E i \in 1..Len(log) : log[i].text = Str(TextDigits)

\* C11: a run over a dataset without questions is rejected as a
\* configuration error: it does not end in the division by zero of the
\* accuracy, and no report is printed or written.
C11_EmptyDatasetRejected ==
    Len(questions_data) = 0 =>
        (pc # "crashed" /\ printed = NoReport /\ evaluation_log = NoFile)

\* the mistake recorded for question i of the dataset answered with a
MistakeOf(i, a) == [question |-> questions_data[i].question,
                    correct_answer |-> questions_data[i].solution,
                    llm_answer |-> a]

\* C12: the questions are taken in dataset order (the one being evaluated is
\* the one after those already counted), the mistakes are, in dataset order,
\* mistakes of questions already counted, and counting a question appends
\* its mistake at the end exactly when its answer differs from the solution.
C12_MistakesInDatasetOrder ==
    /\ [](/\ (pc \in {"ask", "answered"} => idx = progress_n + 1)
          /\ \E f \in [1..Len(incorrect_answers) -> 1..progress_n] :
                /\ \A j, k \in 1..Len(incorrect_answers) : j < k => f[j] < f[k]
                /\ \A j \in 1..Len(incorrect_answers) :
                      /\ incorrect_answers[j] =
                            MistakeOf(f[j], incorrect_answers[j].llm_answer)
                      /\ incorrect_answers[j].llm_answer #
                            questions_data[f[j]].solution)
    /\ [][pc = "answered" =>
             incorrect_answers' =
                IF llm_answer # questions_data[idx].solution
                THEN Append(incorrect_answers, MistakeOf(idx, llm_answer))
                ELSE incorrect_answers]_vars

C12_Witness ==
    /\ pc = "loop"
    /\ questions_data = <<Q1, Q2>>
    /\ incorrect_answers = <<MistakeOf(1, "C"), MistakeOf(2, NoneVal)>>

\* C13: what ask_llm returns is one of the letters A, B, C, D or None, and
\* every recorded mistake has an expected answer among the letters and an
\* answer of the model that is a letter or None.
C13_AnswerDomain ==
    /\ llm_answer \in Letters \cup {NoneVal, Unset}
    /\ (pc = "answered" => llm_answer \in Letters \cup {NoneVal})
    /\ \A j \in 1..Len(incorrect_answers) :
          /\ incorrect_answers[j].correct_answer \in Letters
          /\ incorrect_answers[j].llm_answer \in Letters \cup {NoneVal}

C13_Witness ==
    /\ pc = "answered"
    /\ idx = 2
    /\ Last(log).text = Str(TextCannot)
    /\ llm_answer = "C"
    /\ Len(incorrect_answers) = 1
    /\ incorrect_answers[1].llm_answer = NoneVal

\* C14: with a stub adapter that answers every question with its solution,
\* every call of run_evaluation on the same dataset, the first and the one
\* after it, counts every question asked as correct and records no mistake,
\* and ends with every question of the dataset counted.
C14_TwoRunsAllCorrect ==
    /\ correct_count = progress_n
    /\ incorrect_answers = <<>>
    /\ (pc = "done" => /\ correct_count = Len(questions_data)
                       /\ printed = [num |-> 100 * Len(questions_data),
                                     den |-> Len(questions_data)])

C14_Witness ==
    /\ pc = "done"
    /\ run = 2
    /\ questions_data = <<Q1, Q2>>
    /\ correct_count = 2
    /\ incorrect_answers = <<>>

\* C15: the running accuracy shown after a question is 100 times the number
\* of correct answers over the number of questions counted so far, the
\* current one included: its denominator, progress_bar.n + 1 when it is
\* computed, is the number of correct answers plus the number of mistakes.
C15_RunningAccuracy ==
    /\ (progress_n = 0 => accuracy_rate = NoReport)
    /\ (progress_n > 0 =>
           /\ accuracy_rate.num = 100 * correct_count
           /\ accuracy_rate.den = correct_count + Len(incorrect_answers)
           /\ accuracy_rate.den = progress_n)

C15_Witness ==
    /\ pc = "loop"
    /\ progress_n = 2
    /\ correct_count = 1
    /\ Len(incorrect_answers) = 1
    /\ accuracy_rate = [num |-> 100, den |-> 2]

\* C16: get_client_response of the Ollama and of the OpenAI adapter never
\* raises: for every response, also one without the expected message,
\* choices or content, it returns the text or None.
C16_ExtractTextNeverRaises ==
    pc = "adapter_return" => response.tag \in {"str", "None"}

\* the number of questions on the scoreboard
Tallied == correct_count + Len(incorrect_answers)

\* C17: the run is sequential.  While a question is being asked or has just
\* been answered, every question before it is on the scoreboard and it is
\* not; an attempt starts only when the attempts before it, waits included,
\* are over; query_client is called only inside ask_llm, with the questions
\* before on the scoreboard; the scoreboard changes only when an answered
\* question is counted, by one; the questions are taken one by one, each
\* after the one before is counted.
C17_Sequential ==
    /\ [](/\ (pc \in {"ask", "answered"} => (Tallied = idx - 1 /\ progress_n = idx - 1))
          /\ (pc \in {"loop", "done"} => (Tallied = idx /\ progress_n = idx))
          /\ (pc = "ask" => Len(log) = attempt)
          /\ Len(slept) <= Len(log))
    /\ [][/\ (Len(log') = Len(log) + 1 =>
                 (pc = "ask" /\ Tallied = idx - 1 /\ Len(log) = attempt
                  /\ Len(slept') <= Len(slept) + 1))
          /\ (<<correct_count, incorrect_answers>>' # <<correct_count, incorrect_answers>> =>
                 (pc = "answered" /\ pc' = "loop" /\ Tallied' = Tallied + 1
                  /\ Tallied' = idx))
          /\ (idx' # idx => (pc = "loop" /\ idx' = idx + 1 /\ Tallied = idx))]_vars

C17_Witness ==
    /\ pc = "ask"
    /\ idx = 2
    /\ progress_n = 1
    /\ attempt = 2
    /\ log[1].send = "falsy"
    /\ log[2].send = "raised"
    /\ slept = <<2>>

\* C18: a report file exists only when save_evaluation is set and every
\* question of the dataset is on the scoreboard; it holds the summary of the
\* run and then the whole list of mistakes, one entry each, in the list's
\* order; a run that ends has written it exactly when save_evaluation is
\* set; it is written in one step, the last of the run, and never changed.
C18_ReportFile ==
    /\ [](/\ (evaluation_log # NoFile =>
                 /\ save_evaluation
                 /\ pc = "done"
                 /\ progress_n = Len(questions_data)
                 /\ Tallied = Len(questions_data)
                 /\ evaluation_log.summary = accuracy(correct_count, Len(questions_data))
                 /\ evaluation_log.summary = printed
                 /\ Len(evaluation_log.entries) = Len(incorrect_answers)
                 /\ \A j \in 1..Len(incorrect_answers) :
                        evaluation_log.entries[j] = incorrect_answers[j])
          /\ (pc = "done" => (evaluation_log # NoFile <=> save_evaluation))
          /\ (~save_evaluation => evaluation_log = NoFile))
    /\ [][evaluation_log' # evaluation_log =>
             (evaluation_log = NoFile /\ pc = "loop" /\ pc' = "done"
              /\ idx = Len(questions_data))]_vars

C18_Witness ==
    /\ pc = "done"
    /\ save_evaluation
    /\ evaluation_log # NoFile
    /\ Len(evaluation_log.entries) = 2
    /\ evaluation_log.entries[1].question = Q1.question
    /\ evaluation_log.entries[2].question = Q2.question

\* C19: over a dataset whose solutions are all letters, the step that counts
\* an answered question adds one to correct_count exactly when ask_llm
\* returned a letter equal to the question's solution, and otherwise appends
\* a mistake; None, returned when the attempts are used up, is never counted
\* correct; every mistake's llm_answer differs from its correct_answer.
C19_CorrectIffLetterEqualsSolution ==
    /\ [](/\ \A i \in 1..Len(questions_data) : questions_data[i].solution \in Letters
          /\ \A j \in 1..Len(incorrect_answers) :
                 incorrect_answers[j].llm_answer # incorrect_answers[j].correct_answer)
    /\ [][pc = "answered" =>
             /\ ((correct_count' = correct_count + 1) <=>
                     (llm_answer \in Letters /\ llm_answer = questions_data[idx].solution))
             /\ ((correct_count' = correct_count) <=>
                     (Len(incorrect_answers') = Len(incorrect_answers) + 1))
             /\ correct_count' \in {correct_count, correct_count + 1}
             /\ (llm_answer = NoneVal =>
                     (correct_count' = correct_count
                      /\ Last(incorrect_answers').llm_answer = NoneVal))]_vars

C19_Witness ==
    /\ pc = "loop"
    /\ progress_n = 2
    /\ correct_count = 1
    /\ Len(incorrect_answers) = 1
    /\ incorrect_answers[1].llm_answer = NoneVal
    /\ incorrect_answers[1].question = Q1.question

====
